---------------------------- MODULE Spec2Model ----------------------------
(***************************************************************************)
(* Model of mtasa-docs-mcp: the documentation cache (fetchFunctionDoc),    *)
(* the catalog (allFunctions / function_metadata), the text embedder and   *)
(* the matcher (findRelatedFunctions).                                     *)
(*                                                                         *)
(* A JavaScript string is modelled as the sequence of its UTF-16 code      *)
(* units (the values charCodeAt returns), so that prefix tests, case       *)
(* folding, splitting and hashing are computed as the code computes them.  *)
(***************************************************************************)
EXTENDS Integers, Sequences, FiniteSets, TLC

(***************************************************************************)
(* Bounds of the model.                                                    *)
(***************************************************************************)
\* Number of tool calls made in one run of the model; all of them may be in
\* flight at once.
MaxCalls == 2
\* The clock runs over instants around the first MaxPeriods multiples of
\* CACHE_DURATION.
MaxPeriods == 1
\* Largest limit a query is made with.
MaxLimit == 2
\* Largest number of pieces a text given to the embedder is put together from.
MaxPieces == 3

(***************************************************************************)
(* Strings.                                                                *)
(***************************************************************************)
\* String.prototype.toLowerCase on one code unit (ASCII range).
toLowerCaseChar(c) == IF c >= 65 /\ c <= 90 THEN c + 32 ELSE c

\* String.prototype.toUpperCase on one code unit (ASCII range).
toUpperCaseChar(c) == IF c >= 97 /\ c <= 122 THEN c - 32 ELSE c

toLowerCase(s) == [i \in 1..Len(s) |-> toLowerCaseChar(s[i])]

\* The regular expression class \s (the members below 256).
isSpace(c) == c \in {9, 10, 11, 12, 13, 32, 160}

\* The regular expression class \w.
isWordChar(c) ==
    \/ c >= 48 /\ c <= 57
    \/ c >= 65 /\ c <= 90
    \/ c = 95
    \/ c >= 97 /\ c <= 122

startsWith(s, k) == Len(k) <= Len(s) /\ SubSeq(s, 1, Len(k)) = k

includes(s, k) ==
    \E i \in 0..(Len(s) - Len(k)) : SubSeq(s, i + 1, i + Len(k)) = k

\* s.split(/\s+/): the pieces between maximal runs of whitespace, the empty
\* leading and trailing pieces included ("" splits into [""]).
RECURSIVE splitFrom(_, _, _, _)
splitFrom(s, i, cur, inSep) ==
    IF i > Len(s) THEN <<cur>>
    ELSE IF isSpace(s[i])
         THEN IF inSep THEN splitFrom(s, i + 1, cur, TRUE)
                       ELSE <<cur>> \o splitFrom(s, i + 1, <<>>, TRUE)
         ELSE splitFrom(s, i + 1, Append(cur, s[i]), FALSE)

splitWhitespace(s) == splitFrom(s, 1, <<>>, FALSE)

\* Array.prototype.join.
RECURSIVE join(_, _)
join(list, sep) ==
    IF Len(list) = 0 THEN <<>>
    ELSE IF Len(list) = 1 THEN list[1]
    ELSE list[1] \o sep \o join(Tail(list), sep)

\* Array.prototype.filter.
RECURSIVE filterLonger(_, _)
filterLonger(list, n) ==
    IF Len(list) = 0 THEN <<>>
    ELSE IF Len(list[1]) > n THEN <<list[1]>> \o filterLonger(Tail(list), n)
    ELSE filterLonger(Tail(list), n)

Range(f) == {f[i] : i \in DOMAIN f}

\* The sum of f over S.
RECURSIVE sumOver(_, _)
sumOver(f, S) ==
    IF S = {} THEN 0
    ELSE LET x == CHOOSE y \in S : TRUE IN f[x] + sumOver(f, S \ {x})

(***************************************************************************)
(* Configuration constants.                                                *)
(***************************************************************************)
CACHE_DURATION == 7 * 24 * 60 * 60 * 1000

VECTOR_DIMENSIONS == 384

(***************************************************************************)
(* Embedder.                                                               *)
(***************************************************************************)
\* text.toLowerCase().replace(/[^\w\s]/g, " ")
normalizeText(text) ==
    [i \in 1..Len(text) |->
        LET c == toLowerCaseChar(text[i])
        IN  IF isWordChar(c) \/ isSpace(c) THEN c ELSE 32]

\* The words of the text: split on whitespace, words of length <= 2 dropped.
embeddingWords(text) == filterLonger(splitWhitespace(normalizeText(text)), 2)

\* The 32-bit hash is kept as <<high 16 bits, low 16 bits>> of its two's
\* complement representation, so that the wrap-around of
\* ((hash << 5) - hash + charCode) | 0 is computed exactly.
hashStep(h, c) ==
    LET lo == h[2] * 31 + c
        hi == h[1] * 31 + (lo \div 65536)
    IN  <<hi % 65536, lo % 65536>>

RECURSIVE hashFrom(_, _, _)
hashFrom(word, i, h) ==
    IF i > Len(word) THEN h ELSE hashFrom(word, i + 1, hashStep(h, word[i]))

wordHash(word) == hashFrom(word, 1, <<0, 0>>)

\* Mutant of hashIndex: the absolute value is taken in 32 bits, where the
\* minimum -2^31 has no positive counterpart and stays negative.
hashIndex_int32Abs(h) ==
    IF h[1] < 32768
    THEN (h[1] * 65536 + h[2]) % VECTOR_DIMENSIONS
    ELSE IF h = <<32768, 0>>
         THEN 0 - (((32768 % VECTOR_DIMENSIONS) * (65536 % VECTOR_DIMENSIONS))
                        % VECTOR_DIMENSIONS)
    ELSE (((65535 - h[1]) % VECTOR_DIMENSIONS) * (65536 % VECTOR_DIMENSIONS)
            + (65536 - h[2])) % VECTOR_DIMENSIONS

\* Math.abs(hash) % VECTOR_DIMENSIONS; 65536 % 384 = 256.  Math.abs works on
\* doubles, so Math.abs(-2^31) is 2^31.
hashIndex(h) ==
    IF h[1] < 32768
    THEN (h[1] * 65536 + h[2]) % VECTOR_DIMENSIONS
    ELSE (((65535 - h[1]) % VECTOR_DIMENSIONS) * (65536 % VECTOR_DIMENSIONS)
            + (65536 - h[2])) % VECTOR_DIMENSIONS

wordIndex(word) == hashIndex(wordHash(word))

\* termFreq: bucket index -> number of words hashed to it.
termFreq(words) ==
    LET index == [i \in DOMAIN words |-> wordIndex(words[i])]
    IN  [ix \in Range(index) |->
            Cardinality({i \in DOMAIN words : index[i] = ix})]

\* magnitude * magnitude * (words + 1): the sum of the squares of the
\* entries freq / sqrt(words + 1), times words + 1.
magnitudeSquared(tf) == sumOver([ix \in DOMAIN tf |-> tf[ix] * tf[ix]], DOMAIN tf)

\* Mutant of generateTextEmbedding: the entries are divided by the magnitude
\* whatever it is.
generateTextEmbedding_alwaysDivide(text) ==
    LET words == embeddingWords(text)
        tf    == termFreq(words)
    IN  [freq |-> tf, words |-> Len(words), unit |-> TRUE]

\* The embedding vector, kept sparse.  The vector the code returns has
\* freq[ix] / sqrt(words + 1) at bucket ix, divided by magnitude when unit
\* is TRUE (magnitude > 0), and 0 at every other bucket.
generateTextEmbedding(text) ==
    LET words == embeddingWords(text)
        tf    == termFreq(words)
    IN  [freq |-> tf, words |-> Len(words), unit |-> magnitudeSquared(tf) > 0]

\* Buffer.from(vector.buffer): the same bytes, no conversion.
vectorToBuffer(vector) == vector


(***************************************************************************)
(* Identifiers and wiki content used as inputs.                            *)
(***************************************************************************)
s_dbQuery       == <<100,98,81,117,101,114,121>>                    \* "dbQuery"
s_dbPoll        == <<100,98,80,111,108,108>>                        \* "dbPoll"
s_spawnVehicle  == <<115,112,97,119,110,86,101,104,105,99,108,101>> \* "spawnVehicle"
s_createVehicle == <<99,114,101,97,116,101,86,101,104,105,99,108,101>> \* "createVehicle"
s_outputChatBox == <<111,117,116,112,117,116,67,104,97,116,66,111,120>> \* "outputChatBox"
s_print         == <<112,114,105,110,116>>                          \* "print"
s_MainPage      == <<77,97,105,110,32,80,97,103,101>>               \* "Main Page"
s_all           == <<97,108,108>>                                   \* "all"

\* "https://wiki.multitheftauto.com/wiki/"
WikiBase ==
    <<104,116,116,112,115,58,47,47,119,105,107,105,46,109,117,108,116,105,
      116,104,101,102,116,97,117,116,111,46,99,111,109,47,119,105,107,105,47>>

\* A fetched wiki page is kept as what the regular expressions of
\* parseDocumentation and of fetchFunctionDoc extract from its html:
\* the text sections, the links of the <h2> "See Also" section (related) and
\* the title="..." attributes after the first "See also" (seeAlso).
\* The empty response body is EmptyHtml.
EmptyHtml == [empty |-> TRUE]

\* createVehicle-like page: the parser finds a related list.
PageVehicle ==
    [empty       |-> FALSE,
     description |-> <<67,114,101,97,116,101,115,32,97,32,118,101,104,105,99,108,101,46>>, \* "Creates a vehicle."
     syntax      |-> <<99,114,101,97,116,101,86,101,104,105,99,108,101,40,41>>, \* "createVehicle()"
     examples    |-> <<>>,
     parameters  |-> <<>>,
     returns     |-> <<>>,
     related     |-> <<s_spawnVehicle, s_MainPage>>,
     seeAlso     |-> <<s_createVehicle>>,
     deprecated  |-> <<>>]

\* dbQuery-like page: the parser finds no related list, the page has links.
PageQuery ==
    [empty       |-> FALSE,
     description |-> <<82,117,110,115,32,97,110,32,83,81,76,32,113,117,101,114,121>>, \* "Runs an SQL query"
     syntax      |-> <<>>,
     examples    |-> <<>>,
     parameters  |-> <<>>,
     returns     |-> <<>>,
     related     |-> <<>>,
     seeAlso     |-> <<s_dbPoll, s_MainPage, s_dbQuery>>,
     deprecated  |-> <<100,98,69,120,101,99>>] \* "dbExec"

Pages == {PageVehicle, PageQuery}

\* Names a tool call may be made with.
CallNames == {s_dbQuery, s_MainPage}

\* luafuncs.js / mtafuncs.js as the <<name, type>> pairs the regular
\* expression of parseFunctionList matches, in file order.
LuaFuncs == <<<<s_print, 3>>>>

MtaFuncsA ==
    <<<<s_spawnVehicle, 7>>, <<s_outputChatBox, 5>>, <<s_createVehicle, 7>>,
      <<s_dbQuery, 5>>, <<s_dbPoll, 11>>>>

FunctionLists == {MtaFuncsA}

FUNCTION_TYPES ==
    [t \in 2..9 |->
        CASE t = 2 -> [category |-> "Lua Keywords", side |-> "shared"]
          [] t = 3 -> [category |-> "Standard Lua Functions", side |-> "shared"]
          [] t = 4 -> [category |-> "Data Types/Classes", side |-> "shared"]
          [] t = 5 -> [category |-> "MTA:SA Shared Functions", side |-> "shared"]
          [] t = 6 -> [category |-> "Client Functions", side |-> "client"]
          [] t = 7 -> [category |-> "Server Functions", side |-> "server"]
          [] t = 8 -> [category |-> "Client Events", side |-> "client"]
          [] t = 9 -> [category |-> "Server Events", side |-> "server"]]

(***************************************************************************)
(* State.                                                                  *)
(***************************************************************************)
VARIABLES
    now,          \* Date.now(), in ms since the process started
    allFunctions, \* the in-memory Map name -> MtasaFunction, in insertion order
    metadata,     \* table function_metadata: name -> row
    docs,         \* table function_docs: function_name -> row
    loadPc,       \* position of loadMtasaFunctions
    calls,        \* the tool calls in flight
    found,        \* the last answer of findRelatedFunctions or searchFunctions
    cleared,      \* clear_mtasa_cache("all") has run and no call was started since
    stats,        \* the last answer of get_mtasa_cache_stats
    tieOrder,     \* the order in which SQLite returns rows of function_docs that
                  \* sort equal: fixed as long as the table is not written
    embedText,    \* the argument of a call of generateTextEmbedding
    embedded      \* what that call returned

vars ==
    <<now, allFunctions, metadata, docs, loadPc, calls, found, cleared, stats,
      tieOrder, embedText, embedded>>

Procs == 1..MaxCalls

\* The instants the clock can show: the start, and the last millisecond
\* before and the first at each multiple of CACHE_DURATION.
TimePoints ==
    {0} \cup {k * CACHE_DURATION - e : k \in 1..MaxPeriods, e \in {0, 1}}

NoRow == [found |-> FALSE]

\* A call: its arguments, the locals of fetchFunctionDoc that live across an
\* await (cached, the place in urlVariants, the response, usedUrl) and the
\* value it returned.
IdleCall ==
    [pc |-> "idle", name |-> <<>>, useCache |-> FALSE, cached |-> NoRow,
     variant |-> 0, respUrl |-> <<>>, usedUrl |-> <<>>,
     result |-> [kind |-> "none"]]

NoAnswer ==
    [query |-> <<>>, limit |-> 0, threw |-> FALSE, path |-> "none", result |-> <<>>]

\* get_mtasa_cache_stats has not answered yet.
\* No call of generateTextEmbedding has returned.
NoVector == [made |-> FALSE]

NoStats == [asked |-> FALSE]

\* All orders of the names of S.
RECURSIVE Orders(_)
Orders(S) ==
    IF S = {} THEN {<<>>}
    ELSE UNION {{<<x>> \o rest : rest \in Orders(S \ {x})} : x \in S}

Init ==
    /\ now = 0
    /\ allFunctions = <<>>
    /\ metadata = [n \in {} |-> n]
    /\ docs = [n \in {} |-> n]
    /\ loadPc = "fetching"
    /\ calls = [p \in Procs |-> IdleCall]
    /\ found = NoAnswer
    /\ cleared = FALSE
    /\ stats = NoStats
    /\ tieOrder = <<>>
    /\ embedText = <<>>
    /\ embedded = NoVector

(***************************************************************************)
(* Catalog: loadMtasaFunctions.                                            *)
(***************************************************************************)
\* Map.prototype.has on allFunctions.
mapHas(m, name) == \E i \in DOMAIN m : m[i].name = name

\* Map.prototype.set: a new key is appended, an existing key keeps its place.
mapSet(m, item) ==
    IF mapHas(m, item.name)
    THEN [i \in DOMAIN m |-> IF m[i].name = item.name THEN item ELSE m[i]]
    ELSE Append(m, item)

\* FUNCTION_TYPES[type] || { category: "Unknown", side: "shared" }
typeInfo(type) ==
    IF type \in DOMAIN FUNCTION_TYPES
    THEN FUNCTION_TYPES[type]
    ELSE [category |-> "Unknown", side |-> "shared"]

RECURSIVE parseFunctionList(_, _)
parseFunctionList(m, jsContent) ==
    IF Len(jsContent) = 0 THEN m
    ELSE LET name == jsContent[1][1]
             type == jsContent[1][2]
             item == [name |-> name, type |-> type,
                      category |-> typeInfo(type).category,
                      side |-> typeInfo(type).side]
         IN  parseFunctionList(mapSet(m, item), Tail(jsContent))

\* INSERT OR REPLACE INTO function_metadata, once per value of the Map.
insertMetadata(table, functions) ==
    [n \in DOMAIN table \cup {functions[i].name : i \in DOMAIN functions} |->
        IF \E i \in DOMAIN functions : functions[i].name = n
        THEN CHOOSE f \in Range(functions) : f.name = n
        ELSE table[n]]

\* Both lists arrived: they are parsed into allFunctions and the whole Map
\* is written to function_metadata in one transaction.
LoadCompleteFrom(mtaText) ==
    /\ loadPc = "fetching"
    /\ LET loaded == parseFunctionList(parseFunctionList(allFunctions, LuaFuncs),
                                        mtaText)
        IN  /\ allFunctions' = loaded
            /\ metadata' = insertMetadata(metadata, loaded)
    /\ loadPc' = "done"
    /\ UNCHANGED <<now, docs, calls, found, cleared, stats, tieOrder, embedText, embedded>>

LoadComplete == \E mtaText \in FunctionLists : LoadCompleteFrom(mtaText)

\* Both lists arrived and were parsed into allFunctions; then the
\* transaction threw (the database is busy or full) and was rolled back.
\* The catch block logs the error.
LoadInsertFailFrom(mtaText) ==
    /\ loadPc = "fetching"
    /\ allFunctions' = parseFunctionList(parseFunctionList(allFunctions, LuaFuncs),
                                         mtaText)
    /\ loadPc' = "failed"
    /\ UNCHANGED <<now, metadata, docs, calls, found, cleared, stats, tieOrder,
                   embedText, embedded>>

LoadInsertFail == \E mtaText \in FunctionLists : LoadInsertFailFrom(mtaText)

\* A fetch of the lists, or reading a body, rejected: the catch block logs
\* the error, nothing is loaded.
LoadFail ==
    /\ loadPc = "fetching"
    /\ loadPc' = "failed"
    /\ UNCHANGED <<now, allFunctions, metadata, docs, calls, found, cleared, stats, tieOrder,
                 embedText, embedded>>

(***************************************************************************)
(* Cache coordinator: fetchFunctionDoc behind get_mtasa_function_docs.     *)
(***************************************************************************)
\* Mutant of hasMetadata: every name is taken to be in the catalog.
hasMetadata_any(name) == TRUE

\* SELECT * FROM function_metadata WHERE name = ?
hasMetadata(name) == name \in DOMAIN metadata

\* functionName.charAt(0).toUpperCase() + functionName.slice(1)
capitalize(s) ==
    IF Len(s) = 0 THEN s ELSE <<toUpperCaseChar(s[1])>> \o SubSeq(s, 2, Len(s))

\* Mutant of urlVariants: the all-lowercase spelling is tried first.
urlVariants_lowercaseFirst(functionName) ==
    <<toLowerCase(functionName), capitalize(functionName), functionName>>

urlVariants(functionName) ==
    <<functionName, capitalize(functionName), toLowerCase(functionName)>>

wikiUrl(variant) == WikiBase \o variant

\* Mutant of cacheHit: the age comparison is turned around.
cacheHit_reversed(functionName, useCache) ==
    /\ useCache
    /\ functionName \in DOMAIN docs
    /\ now - docs[functionName].timestamp > CACHE_DURATION

\* Mutant of cacheHit: a row of age exactly CACHE_DURATION still counts as
\* fresh.
cacheHit_inclusive(functionName, useCache) ==
    /\ useCache
    /\ functionName \in DOMAIN docs
    /\ now - docs[functionName].timestamp <= CACHE_DURATION

\* The cached row is used: useCache, a row exists, and it is younger than
\* CACHE_DURATION.
cacheHit(functionName, useCache) ==
    /\ useCache
    /\ functionName \in DOMAIN docs
    /\ now - docs[functionName].timestamp < CACHE_DURATION

\* Mutant of parseTimestamp: the time is cut to a fixed width and wraps
\* around (here at CACHE_DURATION).
parseTimestamp_wrapped == now % CACHE_DURATION

\* timestamp: Date.now(), read when the page is parsed.
parseTimestamp == now

\* parseDocumentation(html, functionName): the caller passes usedUrl as a
\* third argument, which the function does not declare.
parseDocumentation(html, functionName) ==
    [function_name     |-> functionName,
     url               |-> wikiUrl(functionName),
     timestamp         |-> parseTimestamp,
     description       |-> html.description,
     deprecated        |-> html.deprecated,
     syntax            |-> html.syntax,
     examples          |-> html.examples,
     parameters        |-> html.parameters,
     returns           |-> html.returns,
     related_functions |-> join(html.related, <<44, 32>>),
     full_text         |-> join(<<html.description, html.syntax, html.parameters,
                                  html.returns, html.examples>>, <<32>>)]

\* Mutant of relatedList: every title is taken, in the catalog or not.
relatedList_unfiltered(titles) == titles

\* The titles of the "See also" part that are keys of allFunctions.
RECURSIVE relatedList(_)
relatedList(titles) ==
    IF Len(titles) = 0 THEN <<>>
    ELSE IF mapHas(allFunctions, titles[1])
         THEN <<titles[1]>> \o relatedList(Tail(titles))
         ELSE relatedList(Tail(titles))

\* The CachedDoc built from the page (loader.ts lines 109-134).
buildDoc(html, functionName) ==
    LET docData == parseDocumentation(html, functionName)
    IN  [docData EXCEPT !.related_functions =
            IF Len(docData.related_functions) > 0
            THEN docData.related_functions
            ELSE join(relatedList(html.seeAlso), <<44, 32>>)]

\* The row handed to insertDoc: the CachedDoc and the embedding of its
\* full_text.
docRow(doc) ==
    [function_name     |-> doc.function_name,
     url               |-> doc.url,
     description       |-> doc.description,
     syntax            |-> doc.syntax,
     examples          |-> doc.examples,
     parameters        |-> doc.parameters,
     returns           |-> doc.returns,
     related_functions |-> doc.related_functions,
     full_text         |-> doc.full_text,
     timestamp         |-> doc.timestamp,
     embedding         |-> vectorToBuffer(generateTextEmbedding(doc.full_text)),
     deprecated        |-> doc.deprecated]

\* FOREIGN KEY (function_name) REFERENCES function_metadata(name): the
\* insert is refused when the parent row is missing.
insertDocThrows(row) == ~hasMetadata(row.function_name)

\* Mutant of insertDoc: an existing row is updated column by column and
\* the update leaves full_text and embedding out.
insertDoc_partial(table, row) ==
    [n \in DOMAIN table \cup {row.function_name} |->
        IF n # row.function_name THEN table[n]
        ELSE IF n \in DOMAIN table
             THEN [row EXCEPT !.full_text = table[n].full_text,
                              !.embedding = table[n].embedding]
             ELSE row]

\* INSERT OR REPLACE INTO function_docs: the whole row replaces the old one.
\* Mutant of insertDoc: the embedding of a row that exists is kept, the
\* other columns are replaced.
insertDoc_keepEmbedding(table, row) ==
    [n \in DOMAIN table \cup {row.function_name} |->
        IF n # row.function_name THEN table[n]
        ELSE IF n \in DOMAIN table
             THEN [row EXCEPT !.embedding = table[n].embedding]
             ELSE row]

insertDoc(table, row) ==
    [n \in DOMAIN table \cup {row.function_name} |->
        IF n = row.function_name THEN row ELSE table[n]]

finished(c, res) ==
    [c EXCEPT !.pc = "done", !.cached = NoRow, !.respUrl = <<>>, !.result = res]

\* const cached = queries.getDoc().get(functionName), read when useCache.
getCached(functionName, useCache) ==
    IF useCache /\ functionName \in DOMAIN docs
    THEN [found |-> TRUE, row |-> docs[functionName]]
    ELSE NoRow

\* The tool handler up to its first await: metadata lookup, cache check,
\* request for the first url variant.
StartCall(p, name, useCache) ==
    /\ calls[p].pc = "idle"
    /\ \A q \in Procs : q < p => calls[q].pc # "idle"
    /\ LET c == [IdleCall EXCEPT !.name = name, !.useCache = useCache]
       IN  calls' = [calls EXCEPT ![p] =
                IF ~hasMetadata(name) THEN finished(c, [kind |-> "notInCatalog"])
                ELSE IF cacheHit(name, useCache)
                THEN finished(c, [kind |-> "doc", doc |-> docs[name]])
                ELSE [c EXCEPT !.pc = "fetch", !.variant = 1,
                               !.cached = getCached(name, useCache)]]
    /\ cleared' = FALSE
    /\ UNCHANGED <<now, allFunctions, metadata, docs, loadPc, found, stats, tieOrder,
                 embedText, embedded>>

\* The variant failed: the next one is requested, or the call fails with
\* "Could not fetch wiki page" and returns null.
nextVariant(c) ==
    IF c.variant < Len(urlVariants(c.name))
    THEN [c EXCEPT !.pc = "fetch", !.variant = @ + 1, !.respUrl = <<>>]
    ELSE finished(c, [kind |-> "null"])

\* response.url of an OK response: empty, or the final (redirected) url.
ResponseUrls(c) ==
    {<<>>, wikiUrl(capitalize(c.name))}

\* await fetch(url) settles.
FetchResponse(p) ==
    /\ calls[p].pc = "fetch"
    /\ \/ \E u \in ResponseUrls(calls[p]) :
            calls' = [calls EXCEPT ![p].pc = "text", ![p].respUrl = u]
       \/ calls' = [calls EXCEPT ![p] = nextVariant(calls[p])]
    /\ UNCHANGED <<now, allFunctions, metadata, docs, loadPc, found, cleared, stats, tieOrder,
                 embedText, embedded>>

\* await response.text() rejects: the variant is skipped.
TextFail(p) ==
    /\ calls[p].pc = "text"
    /\ calls' = [calls EXCEPT ![p] = nextVariant(calls[p])]
    /\ UNCHANGED <<now, allFunctions, metadata, docs, loadPc, found, cleared, stats, tieOrder,
                 embedText, embedded>>

\* Mutant of completeFetch: the row is written before the step that throws.
completeFetch_writeBeforeThrow(c, html, thrown) ==
    IF html.empty
    THEN [docs |-> docs, result |-> [kind |-> "null"]]
    ELSE LET doc == buildDoc(html, c.name)
         IN  IF insertDocThrows(docRow(doc))
             THEN [docs |-> docs, result |-> [kind |-> "null"]]
             ELSE [docs   |-> insertDoc(docs, docRow(doc)),
                   result |-> IF thrown THEN [kind |-> "null"]
                                        ELSE [kind |-> "doc", doc |-> doc]]

\* fetchFunctionDoc from the check of html to its return (lines 105-158),
\* for the call c that received html: the new function_docs table and the
\* value returned.  thrown: an exception is raised between lines 109 and
\* 152, before the insert is done.
completeFetch(c, html, thrown) ==
    IF html.empty
    THEN [docs |-> docs, result |-> [kind |-> "null"]]
    ELSE LET doc == buildDoc(html, c.name)
         IN  IF thrown \/ insertDocThrows(docRow(doc))
             THEN [docs |-> docs, result |-> [kind |-> "null"]]
             ELSE [docs   |-> insertDoc(docs, docRow(doc)),
                   result |-> [kind |-> "doc", doc |-> doc]]

\* await response.text() resolves; the rest of fetchFunctionDoc runs without
\* another await: parse, related list, embedding, insertDoc, return.
TextResponse(p) ==
    /\ calls[p].pc = "text"
    /\ \E html \in Pages \cup {EmptyHtml}, thrown \in BOOLEAN :
        LET c       == calls[p]
            url     == wikiUrl(urlVariants(c.name)[c.variant])
            usedUrl == IF Len(c.respUrl) > 0 THEN c.respUrl ELSE url
            out     == completeFetch(c, html, thrown)
        IN  /\ docs' = out.docs
            /\ tieOrder' \in Orders(DOMAIN out.docs)
            /\ calls' = [calls EXCEPT ![p] =
                            finished([c EXCEPT !.usedUrl = usedUrl], out.result)]
    /\ UNCHANGED <<now, allFunctions, metadata, loadPc, found, cleared, stats,
                 embedText, embedded>>

\* Mutant of ClearCache: the name is compared without regard to case.
ClearCache_ignoreCase(function_name) ==
    /\ docs' = IF function_name = s_all
               THEN [n \in {} |-> n]
               ELSE [n \in {m \in DOMAIN docs :
                                toLowerCase(m) # toLowerCase(function_name)} |->
                        docs[n]]
    /\ cleared' = (cleared \/ function_name = s_all)
    /\ tieOrder' \in Orders(DOMAIN docs')
    /\ UNCHANGED <<now, allFunctions, metadata, loadPc, calls, found, stats, embedText, embedded>>

\* The names clear_mtasa_cache is called with: a name that can be stored,
\* the same name in lower case, and 'all'.
ClearNames == {s_dbQuery, toLowerCase(s_dbQuery), s_all}

\* clear_mtasa_cache.
ClearCache(function_name) ==
    /\ docs' = IF function_name = s_all
               THEN [n \in {} |-> n]
               ELSE [n \in DOMAIN docs \ {function_name} |-> docs[n]]
    /\ cleared' = (cleared \/ function_name = s_all)
    /\ tieOrder' \in Orders(DOMAIN docs')
    /\ UNCHANGED <<now, allFunctions, metadata, loadPc, calls, found, stats, embedText, embedded>>

\* Time passes.
Tick ==
    /\ \E t \in TimePoints : t > now /\ now' = t
    /\ UNCHANGED <<allFunctions, metadata, docs, loadPc, calls, found, cleared, stats, tieOrder,
                 embedText, embedded>>

Next ==
    \/ LoadComplete
    \/ LoadFail
    \/ LoadInsertFail
    \/ \E p \in Procs, name \in CallNames, useCache \in BOOLEAN :
            StartCall(p, name, useCache)
    \/ \E p \in Procs : FetchResponse(p)
    \/ \E p \in Procs : TextFail(p)
    \/ \E p \in Procs : TextResponse(p)
    \/ \E name \in ClearNames : ClearCache(name)
    \/ Tick

Spec == Init /\ [][Next]_vars

\* Spec with the network answering: every await fetch(url) and every
\* await response.text() settles, resolved or rejected.  The code sets no
\* timeout of its own.
SpecFair ==
    /\ Spec
    /\ \A p \in Procs :
        /\ WF_vars(FetchResponse(p))
        /\ WF_vars(TextFail(p) \/ TextResponse(p))

\* SELECT COUNT(*) as count FROM function_docs
countDocs == Cardinality(DOMAIN docs)

\* get_mtasa_cache_stats: the count of the answer.
CacheStats ==
    /\ stats' = [asked |-> TRUE, count |-> countDocs]
    /\ UNCHANGED <<now, allFunctions, metadata, docs, loadPc, calls, found, cleared, tieOrder,
                 embedText, embedded>>

\* The tools of Spec and get_mtasa_cache_stats.
ToolsNext ==
    \/ Next
    \/ CacheStats

SpecTools == Init /\ [][ToolsNext]_vars

(***************************************************************************)
(* The catalog load over restarts of the process: the database file stays, *)
(* allFunctions starts empty, main calls loadMtasaFunctions once.          *)
(***************************************************************************)
MtaFuncsB == <<<<s_dbQuery, 6>>, <<s_createVehicle, 7>>>>

MtaFuncsC == <<<<s_dbPoll, 5>>, <<s_spawnVehicle, 6>>>>

MtaFuncsD == <<<<s_outputChatBox, 6>>, <<s_dbQuery, 5>>>>

\* What mtafuncs.js has held at one time or another; <<>> is a body without
\* a match (an error page: response.ok is not looked at).
LoadLists == {<<>>, MtaFuncsA, MtaFuncsB, MtaFuncsC, MtaFuncsD}

\* The process ends and is started again.
Restart ==
    /\ loadPc \in {"done", "failed"}
    /\ allFunctions' = <<>>
    /\ loadPc' = "fetching"
    /\ calls' = [p \in Procs |-> IdleCall]
    /\ UNCHANGED <<now, metadata, docs, found, cleared, stats, tieOrder,
                   embedText, embedded>>

LoadNext ==
    \/ \E mtaText \in LoadLists : LoadCompleteFrom(mtaText)
    \/ LoadFail
    \/ \E mtaText \in LoadLists : LoadInsertFailFrom(mtaText)
    \/ Restart

SpecLoad == Init /\ [][LoadNext]_vars

(***************************************************************************)
(* The embedder on its own: one call of generateTextEmbedding on a text    *)
(* put together from at most MaxPieces pieces.                             *)
(***************************************************************************)
s_xfjfxtf == <<120,102,106,102,120,116,102>> \* "xfjfxtf"
s_Player  == <<80,108,97,121,101,114>>        \* "Player"
s_car     == <<99,97,114>>                    \* "car"
s_db2     == <<100,98>>                       \* "db"

\* Words, a blank, a punctuation mark and the underscore.  The hash of
\* "xfjfxtf" is -2^31, that of "player" is negative.
EmbedPieces ==
    {s_xfjfxtf, s_Player, s_car, s_db2, <<32>>, <<45>>, <<95>>}

EmbedTexts ==
    {join(pieces, <<>>) :
        pieces \in UNION {[1..n -> EmbedPieces] : n \in 0..MaxPieces}}

EmbedInit ==
    /\ now = 0
    /\ allFunctions = <<>>
    /\ metadata = [n \in {} |-> n]
    /\ docs = [n \in {} |-> n]
    /\ loadPc = "fetching"
    /\ calls = [p \in Procs |-> IdleCall]
    /\ found = NoAnswer
    /\ cleared = FALSE
    /\ stats = NoStats
    /\ tieOrder = <<>>
    /\ embedText \in EmbedTexts
    /\ embedded = NoVector

\* generateTextEmbedding(text) returns.
Embed ==
    /\ embedded = NoVector
    /\ embedded' = [made |-> TRUE, vector |-> generateTextEmbedding(embedText)]
    /\ UNCHANGED <<now, allFunctions, metadata, docs, loadPc, calls, found, cleared,
                   stats, tieOrder, embedText>>

EmbedNext == Embed

SpecEmbed == EmbedInit /\ [][EmbedNext]_vars

(***************************************************************************)
(* Matcher: expandQueryKeywords and findRelatedFunctions.                  *)
(***************************************************************************)
KEYWORD_ALIASES ==
       (<<100,97,116,97,98,97,115,101>> :> <<<<100,98>>>>) \* database: db
    @@ (<<115,113,108,105,116,101>> :> <<<<100,98>>>>) \* sqlite: db
    @@ (<<115,113,108>> :> <<<<100,98>>>>) \* sql: db
    @@ (<<113,117,101,114,121>> :> <<<<100,98>>>>) \* query: db
    @@ (<<103,117,105>> :> <<<<103,117,105>>, <<100,103,115>>>>) \* gui: gui, dgs
    @@ (<<105,110,116,101,114,102,97,99,101>> :> <<<<103,117,105>>, <<100,103,115>>>>) \* interface: gui, dgs
    @@ (<<119,105,110,100,111,119>> :> <<<<103,117,105>>, <<100,103,115>>, <<99,114,101,97,116,101>>>>) \* window: gui, dgs, create
    @@ (<<98,117,116,116,111,110>> :> <<<<103,117,105>>, <<100,103,115>>, <<99,114,101,97,116,101>>>>) \* button: gui, dgs, create
    @@ (<<117,105>> :> <<<<103,117,105>>, <<100,103,115>>>>) \* ui: gui, dgs
    @@ (<<109,101,110,117>> :> <<<<103,117,105>>, <<100,103,115>>>>) \* menu: gui, dgs
    @@ (<<100,105,97,108,111,103>> :> <<<<103,117,105>>, <<100,103,115>>>>) \* dialog: gui, dgs
    @@ (<<99,101,103,117,105>> :> <<<<103,117,105>>, <<100,103,115>>>>) \* cegui: gui, dgs
    @@ (<<98,114,111,119,115,101,114>> :> <<<<98,114,111,119,115,101,114>>, <<103,117,105>>, <<99,114,101,97,116,101>>>>) \* browser: browser, gui, create
    @@ (<<99,101,102>> :> <<<<98,114,111,119,115,101,114>>, <<99,114,101,97,116,101>>, <<105,110,106,101,99,116>>>>) \* cef: browser, create, inject
    @@ (<<104,116,109,108>> :> <<<<98,114,111,119,115,101,114>>, <<99,114,101,97,116,101>>>>) \* html: browser, create
    @@ (<<106,97,118,97,115,99,114,105,112,116>> :> <<<<98,114,111,119,115,101,114>>, <<101,120,101,99,117,116,101>>>>) \* javascript: browser, execute
    @@ (<<106,115>> :> <<<<98,114,111,119,115,101,114>>, <<101,120,101,99,117,116,101>>>>) \* js: browser, execute
    @@ (<<119,101,98>> :> <<<<98,114,111,119,115,101,114>>, <<99,114,101,97,116,101>>>>) \* web: browser, create
    @@ (<<119,101,98,118,105,101,119>> :> <<<<98,114,111,119,115,101,114>>, <<99,114,101,97,116,101>>>>) \* webview: browser, create
    @@ (<<101,108,101,109,101,110,116>> :> <<<<101,108,101,109,101,110,116>>, <<103,101,116>>, <<115,101,116>>, <<99,114,101,97,116,101>>>>) \* element: element, get, set, create
    @@ (<<112,108,97,121,101,114>> :> <<<<112,108,97,121,101,114>>, <<103,101,116>>, <<115,101,116>>>>) \* player: player, get, set
    @@ (<<118,101,104,105,99,108,101>> :> <<<<118,101,104,105,99,108,101>>, <<103,101,116>>, <<115,101,116>>, <<99,114,101,97,116,101>>>>) \* vehicle: vehicle, get, set, create
    @@ (<<99,97,114>> :> <<<<118,101,104,105,99,108,101>>>>) \* car: vehicle
    @@ (<<112,101,100>> :> <<<<112,101,100>>, <<103,101,116>>, <<115,101,116>>, <<99,114,101,97,116,101>>>>) \* ped: ped, get, set, create
    @@ (<<112,101,100,101,115,116,114,105,97,110>> :> <<<<112,101,100>>>>) \* pedestrian: ped
    @@ (<<110,112,99>> :> <<<<112,101,100>>>>) \* npc: ped
    @@ (<<111,98,106,101,99,116>> :> <<<<111,98,106,101,99,116>>, <<99,114,101,97,116,101>>>>) \* object: object, create
    @@ (<<112,105,99,107,117,112>> :> <<<<112,105,99,107,117,112>>, <<99,114,101,97,116,101>>>>) \* pickup: pickup, create
    @@ (<<109,97,114,107,101,114>> :> <<<<109,97,114,107,101,114>>, <<99,114,101,97,116,101>>>>) \* marker: marker, create
    @@ (<<98,108,105,112>> :> <<<<98,108,105,112>>, <<99,114,101,97,116,101>>>>) \* blip: blip, create
    @@ (<<100,114,97,119>> :> <<<<100,120>>, <<100,103,115>>, <<103,117,105>>, <<116,101,120,116>>>>) \* draw: dx, dgs, gui, text
    @@ (<<114,101,110,100,101,114>> :> <<<<100,120>>>>) \* render: dx
    @@ (<<100,105,114,101,99,116,120>> :> <<<<100,120>>>>) \* directx: dx
    @@ (<<103,114,97,112,104,105,99,115>> :> <<<<100,120>>>>) \* graphics: dx
    @@ (<<115,104,97,100,101,114>> :> <<<<115,104,97,100,101,114>>, <<100,120>>, <<101,110,103,105,110,101>>>>) \* shader: shader, dx, engine
    @@ (<<116,101,120,116,117,114,101>> :> <<<<116,101,120,116,117,114,101>>, <<100,120>>, <<101,110,103,105,110,101>>>>) \* texture: texture, dx, engine
    @@ (<<115,111,117,110,100>> :> <<<<115,111,117,110,100>>, <<112,108,97,121>>>>) \* sound: sound, play
    @@ (<<97,117,100,105,111>> :> <<<<115,111,117,110,100>>, <<112,108,97,121>>>>) \* audio: sound, play
    @@ (<<109,117,115,105,99>> :> <<<<115,111,117,110,100>>, <<112,108,97,121>>>>) \* music: sound, play
    @@ (<<101,102,102,101,99,116>> :> <<<<102,120>>, <<112,108,97,121>>>>) \* effect: fx, play
    @@ (<<97,110,105,109,97,116,105,111,110>> :> <<<<115,101,116>>, <<103,101,116>>>>) \* animation: set, get
    @@ (<<97,110,105,109>> :> <<<<115,101,116>>, <<103,101,116>>>>) \* anim: set, get
    @@ (<<119,101,97,112,111,110>> :> <<<<119,101,97,112,111,110>>, <<103,105,118,101>>, <<116,97,107,101>>>>) \* weapon: weapon, give, take
    @@ (<<103,117,110>> :> <<<<119,101,97,112,111,110>>, <<103,105,118,101>>>>) \* gun: weapon, give
    @@ (<<101,118,101,110,116>> :> <<<<101,118,101,110,116>>, <<97,100,100>>, <<116,114,105,103,103,101,114>>, <<111,110>>>>) \* event: event, add, trigger, on
    @@ (<<104,97,110,100,108,101,114>> :> <<<<97,100,100>>, <<114,101,109,111,118,101>>>>) \* handler: add, remove
    @@ (<<99,97,108,108,98,97,99,107>> :> <<<<97,100,100>>, <<111,110>>>>) \* callback: add, on
    @@ (<<98,105,110,100>> :> <<<<98,105,110,100>>, <<116,111,103,103,108,101>>>>) \* bind: bind, toggle
    @@ (<<107,101,121>> :> <<<<98,105,110,100>>, <<103,101,116>>, <<105,115>>>>) \* key: bind, get, is
    @@ (<<99,111,110,116,114,111,108>> :> <<<<103,101,116>>, <<115,101,116>>, <<116,111,103,103,108,101>>>>) \* control: get, set, toggle
    @@ (<<112,101,114,109,105,115,115,105,111,110>> :> <<<<97,99,108>>>>) \* permission: acl
    @@ (<<97,99,99,101,115,115>> :> <<<<97,99,108>>>>) \* access: acl
    @@ (<<97,100,109,105,110>> :> <<<<97,99,108>>>>) \* admin: acl
    @@ (<<120,109,108>> :> <<<<120,109,108>>>>) \* xml: xml
    @@ (<<102,105,108,101>> :> <<<<102,105,108,101>>>>) \* file: file
    @@ (<<99,111,110,102,105,103>> :> <<<<120,109,108>>, <<102,105,108,101>>>>) \* config: xml, file
    @@ (<<99,97,109,101,114,97>> :> <<<<103,101,116>>, <<115,101,116>>>>) \* camera: get, set
    @@ (<<119,101,97,116,104,101,114>> :> <<<<103,101,116>>, <<115,101,116>>>>) \* weather: get, set
    @@ (<<116,105,109,101>> :> <<<<103,101,116>>, <<115,101,116>>>>) \* time: get, set
    @@ (<<119,111,114,108,100>> :> <<<<103,101,116>>, <<115,101,116>>>>) \* world: get, set
    @@ (<<110,101,116,119,111,114,107>> :> <<<<102,101,116,99,104>>, <<99,97,108,108>>>>) \* network: fetch, call
    @@ (<<114,101,109,111,116,101>> :> <<<<99,97,108,108>>, <<102,101,116,99,104>>>>) \* remote: call, fetch
    @@ (<<104,116,116,112>> :> <<<<104,116,116,112>>, <<102,101,116,99,104>>>>) \* http: http, fetch
    @@ (<<101,110,103,105,110,101>> :> <<<<101,110,103,105,110,101>>>>) \* engine: engine
    @@ (<<109,111,100,101,108>> :> <<<<101,110,103,105,110,101>>>>) \* model: engine
    @@ (<<104,97,110,100,108,105,110,103>> :> <<<<104,97,110,100,108,105,110,103>>>>) \* handling: handling
    @@ (<<116,105,109,101,114>> :> <<<<115,101,116>>, <<107,105,108,108>>>>) \* timer: set, kill
    @@ (<<100,101,98,117,103>> :> <<<<100,101,98,117,103>>, <<111,117,116,112,117,116>>>>) \* debug: debug, output
    @@ (<<99,111,110,115,111,108,101>> :> <<<<111,117,116,112,117,116>>>>) \* console: output
    @@ (<<99,104,97,116>> :> <<<<111,117,116,112,117,116>>>>) \* chat: output
    @@ (<<109,101,115,115,97,103,101>> :> <<<<111,117,116,112,117,116>>>>) \* message: output

\* The lower-case names every object inherits from Object.prototype: a
\* lookup of one of them in KEYWORD_ALIASES yields a value that is truthy
\* and has no forEach.
InheritedKeys ==
    {<<99,111,110,115,116,114,117,99,116,111,114>>, \* constructor
     <<95,95,112,114,111,116,111,95,95>>}           \* __proto__

\* Set.prototype.add for each element of list, on the insertion-ordered Set.
RECURSIVE addAll(_, _)
addAll(set, list) ==
    IF Len(list) = 0 THEN set
    ELSE addAll(IF list[1] \in Range(set) THEN set ELSE Append(set, list[1]),
                Tail(list))

RECURSIVE expandFrom(_, _, _)
expandFrom(words, i, expanded) ==
    IF i > Len(words) THEN [threw |-> FALSE, words |-> expanded]
    ELSE IF words[i] \in DOMAIN KEYWORD_ALIASES
         THEN expandFrom(words, i + 1, addAll(expanded, KEYWORD_ALIASES[words[i]]))
         ELSE IF words[i] \in InheritedKeys
              THEN [threw |-> TRUE, words |-> <<>>]
              ELSE expandFrom(words, i + 1, expanded)

\* expandQueryKeywords: the words of the query, then the aliases of each.
expandQueryKeywords(query) ==
    LET words == splitWhitespace(toLowerCase(query))
    IN  expandFrom(words, 1, addAll(<<>>, words))

\* s.split(/(?=[A-Z])/): cut before every upper-case letter but the first
\* character.
RECURSIVE splitCamelFrom(_, _, _)
splitCamelFrom(s, i, cur) ==
    IF i > Len(s) THEN <<cur>>
    ELSE IF s[i] >= 65 /\ s[i] <= 90 /\ i > 1
         THEN <<cur>> \o splitCamelFrom(s, i + 1, <<s[i]>>)
         ELSE splitCamelFrom(s, i + 1, Append(cur, s[i]))

splitCamel(s) == IF Len(s) = 0 THEN <<s>> ELSE splitCamelFrom(s, 1, <<>>)

\* The score one keyword adds to a function name (loader.ts lines 339-354).
keywordScore(funcNameLower, keyword) ==
    (IF startsWith(funcNameLower, keyword) THEN 20 ELSE 0)
    + (IF includes(funcNameLower, keyword) THEN 10 ELSE 0)
    + (IF \E part \in Range(splitCamel(funcNameLower)) :
             includes(toLowerCase(part), keyword)
       THEN 5 ELSE 0)

RECURSIVE sumScores(_, _)
sumScores(funcNameLower, keywords) ==
    IF Len(keywords) = 0 THEN 0
    ELSE keywordScore(funcNameLower, keywords[1])
            + sumScores(funcNameLower, Tail(keywords))

functionScore(func, keywords) == sumScores(toLowerCase(func.name), keywords)

\* Array.prototype.sort((a, b) => b.score - a.score): stable, so entries
\* of equal score keep the order they had.
RECURSIVE insertByScore(_, _)
insertByScore(sorted, x) ==
    IF Len(sorted) = 0 THEN <<x>>
    ELSE IF sorted[1].score >= x.score
         THEN <<sorted[1]>> \o insertByScore(Tail(sorted), x)
         ELSE <<x>> \o sorted

RECURSIVE sortByScore(_)
sortByScore(list) ==
    IF Len(list) = 0 THEN <<>>
    ELSE insertByScore(sortByScore(SubSeq(list, 1, Len(list) - 1)), list[Len(list)])

\* Mutant of slice: nothing is cut off.
slice_whole(list, n) == list

\* Array.prototype.slice(0, n).
slice(list, n) == SubSeq(list, 1, IF n < Len(list) THEN n ELSE Len(list))

\* The keyword fallback (loader.ts lines 329-366).
keywordFallback(query, limit) ==
    LET expansion == expandQueryKeywords(query)
        keywords  == filterLonger(expansion.words, 2)
        all       == [i \in DOMAIN allFunctions |->
                        [func  |-> allFunctions[i],
                         score |-> functionScore(allFunctions[i], keywords)]]
        scored    == SelectSeq(all, LAMBDA e : e.score > 0)
        top       == slice(sortByScore(scored), limit)
    IN  IF expansion.threw
        THEN [threw |-> TRUE, result |-> <<>>]
        ELSE [threw |-> FALSE, result |-> [i \in DOMAIN top |-> top[i].func]]

\* Dot product and squared magnitude of the term-frequency vectors.
dot(a, b) ==
    LET common == DOMAIN a.freq \cap DOMAIN b.freq
    IN  sumOver([ix \in common |-> a.freq[ix] * b.freq[ix]], common)

norm2(a) == dot(a, a)

\* vec_distance_L2(a, q) <= vec_distance_L2(b, q), for the vectors the
\* embedder returns: each is a unit vector (freq scaled to length 1) or the
\* zero vector, so the squared distance is |a|^2 + |q|^2 - 2 a.q.  Compared
\* exactly, without the rounding of 32-bit floats.
distLE(a, b, q) ==
    IF ~q.unit THEN ~a.unit \/ b.unit
    ELSE IF ~a.unit /\ ~b.unit THEN TRUE
    ELSE IF a.unit /\ ~b.unit
         THEN 4 * dot(a, q) * dot(a, q) >= norm2(a) * norm2(q)
    ELSE IF ~a.unit /\ b.unit
         THEN 4 * dot(b, q) * dot(b, q) <= norm2(b) * norm2(q)
    ELSE dot(a, q) * dot(a, q) * norm2(b) >= dot(b, q) * dot(b, q) * norm2(a)

\* Mutant of searchDocsByVector: ORDER BY distance DESC.
searchDocsByVector_descending(queryBuffer, n) ==
    {SubSeq(order, 1, IF n < Len(order) THEN n ELSE Len(order)) :
        order \in {o \in Orders(DOMAIN docs) :
                    \A i, j \in DOMAIN o :
                        i < j => distLE(docs[o[j]].embedding, docs[o[i]].embedding,
                                        queryBuffer)}}

\* The place of name in the order of names.
position(order, name) == CHOOSE i \in DOMAIN order : order[i] = name

\* Mutant of searchDocsByVector: rows of equal distance come in any order,
\* anew at every call.
searchDocsByVector_tiesOpen(queryBuffer, n) ==
    {slice(order, n) :
        order \in {o \in Orders(DOMAIN docs) :
                    \A i, j \in DOMAIN o :
                        i < j => distLE(docs[o[i]].embedding, docs[o[j]].embedding,
                                        queryBuffer)}}

\* SELECT function_name ... ORDER BY distance LIMIT ?: the rows returned, as
\* a sequence of function_name (a set of one sequence).  SQL leaves the order
\* of rows of equal distance open; the statement has no second sort key, so
\* they come in the order in which SQLite walks the unchanged table,
\* tieOrder.
searchDocsByVector(queryBuffer, n) ==
    {slice(order, n) :
        order \in {o \in Orders(DOMAIN docs) :
                    \A i, j \in DOMAIN o :
                        i < j =>
                            /\ distLE(docs[o[i]].embedding, docs[o[j]].embedding,
                                      queryBuffer)
                            /\ distLE(docs[o[j]].embedding, docs[o[i]].embedding,
                                      queryBuffer)
                                    => position(tieOrder, o[i])
                                            < position(tieOrder, o[j])}}

\* getMetadata for each row, rows without metadata skipped.
RECURSIVE lookupAll(_)
lookupAll(rows) ==
    IF Len(rows) = 0 THEN <<>>
    ELSE IF hasMetadata(rows[1])
         THEN <<metadata[rows[1]]>> \o lookupAll(Tail(rows))
         ELSE lookupAll(Tail(rows))

\* Mutant of findRelatedFunctions: a vector result of any size is returned.
findRelatedFunctions_anyVector(query, limit, search) ==
    LET functions == IF search.threw THEN <<>> ELSE lookupAll(search.rows)
        fallback  == keywordFallback(query, limit)
    IN  IF ~search.threw /\ Len(search.rows) > 0 /\ Len(functions) >= 1
        THEN [path |-> "vector", result |-> slice(functions, limit)]
        ELSE IF fallback.threw
             THEN [path |-> "error", result |-> <<>>]
             ELSE [path |-> "keyword", result |-> fallback.result]

\* Mutant of findRelatedFunctions: an insufficient vector result is kept and
\* filled up with the keyword matches.
findRelatedFunctions_merged(query, limit, search) ==
    LET functions == IF search.threw THEN <<>> ELSE lookupAll(search.rows)
        fallback  == keywordFallback(query, limit)
    IN  IF ~search.threw /\ Len(search.rows) > 0 /\ Len(functions) >= limit
        THEN [path |-> "vector", result |-> slice(functions, limit)]
        ELSE IF fallback.threw
             THEN [path |-> "error", result |-> <<>>]
             ELSE [path |-> "keyword",
                   result |-> slice(functions \o fallback.result, limit)]

\* Mutant of findRelatedFunctions: an error of the vector query ends the call.
findRelatedFunctions_rethrow(query, limit, search) ==
    LET functions == IF search.threw THEN <<>> ELSE lookupAll(search.rows)
        fallback  == keywordFallback(query, limit)
    IN  IF ~search.threw /\ Len(search.rows) > 0 /\ Len(functions) >= limit
        THEN [path |-> "vector", result |-> slice(functions, limit)]
        ELSE IF search.threw \/ fallback.threw
             THEN [path |-> "error", result |-> <<>>]
             ELSE [path |-> "keyword", result |-> fallback.result]

\* findRelatedFunctions(query, limit), given what the vector query did:
\* search.threw, or search.rows.
findRelatedFunctions(query, limit, search) ==
    LET functions == IF search.threw THEN <<>> ELSE lookupAll(search.rows)
        fallback  == keywordFallback(query, limit)
    IN  IF ~search.threw /\ Len(search.rows) > 0 /\ Len(functions) >= limit
        THEN [path |-> "vector", result |-> slice(functions, limit)]
        ELSE IF fallback.threw
             THEN [path |-> "error", result |-> <<>>]
             ELSE [path |-> "keyword", result |-> fallback.result]

\* Mutant of FindRelated: the tool answers only when the lists are loaded.
FindRelated_afterLoad(query, limit) ==
    /\ loadPc = "done"
    /\ \E search \in {[threw |-> TRUE]}
            \cup {[threw |-> FALSE, rows |-> r] :
                    r \in searchDocsByVector(
                            vectorToBuffer(generateTextEmbedding(query)), limit * 2)} :
        LET out == findRelatedFunctions(query, limit, search)
        IN  found' = [query |-> query, limit |-> limit, threw |-> search.threw,
                      path |-> out.path, result |-> out.result]
    /\ UNCHANGED <<now, allFunctions, metadata, docs, loadPc, calls, cleared, stats, tieOrder,
                 embedText, embedded>>

\* find_mtasa_functions_for_task.
FindRelated(query, limit) ==
    /\ \E search \in {[threw |-> TRUE]}
            \cup {[threw |-> FALSE, rows |-> r] :
                    r \in searchDocsByVector(
                            vectorToBuffer(generateTextEmbedding(query)), limit * 2)} :
        LET out == findRelatedFunctions(query, limit, search)
        IN  found' = [query |-> query, limit |-> limit, threw |-> search.threw,
                      path |-> out.path, result |-> out.result]
    /\ UNCHANGED <<now, allFunctions, metadata, docs, loadPc, calls, cleared, stats, tieOrder,
                 embedText, embedded>>

\* Mutant of searchFunctions: the side asked for is not looked at.
searchFunctions_anySide(query, side, limit) ==
    LET matching == {n \in DOMAIN metadata :
                        includes(toLowerCase(n), toLowerCase(query))}
    IN  {[i \in DOMAIN rows |-> metadata[rows[i]]] :
            rows \in {SubSeq(order, 1, IF limit < Len(order) THEN limit ELSE Len(order)) :
                        order \in Orders(matching)}}

\* searchFunctions: the rows of function_metadata with name LIKE %query%
\* (LIKE ignores the case of ASCII letters) whose side is the one asked
\* for, if any, or 'shared'; at most limit rows, in an order SQL leaves open.
\* The result is the set of row sequences the statement can return.
searchFunctions(query, side, limit) ==
    LET matching == {n \in DOMAIN metadata :
                        /\ includes(toLowerCase(n), toLowerCase(query))
                        /\ \/ side = "null"
                           \/ metadata[n].side = side
                           \/ metadata[n].side = "shared"}
    IN  {[i \in DOMAIN rows |-> metadata[rows[i]]] :
            rows \in {slice(order, limit) : order \in Orders(matching)}}

\* search_mtasa_functions.
Search(query, side, limit) ==
    /\ \E rows \in searchFunctions(query, side, limit) :
        found' = [query |-> query, limit |-> limit, threw |-> FALSE,
                  path |-> "search", result |-> rows, side |-> side]
    /\ UNCHANGED <<now, allFunctions, metadata, docs, loadPc, calls, cleared, stats, tieOrder,
                 embedText, embedded>>

(***************************************************************************)
(* Properties of the cache coordinator, checked under Spec.                *)
(***************************************************************************)
\* Call p takes its first step (the handler runs up to its first await).
Starts(p) == calls[p].pc = "idle" /\ calls'[p].pc # "idle"

\* Call p returns in this step.
Returns(p) == calls[p].pc # "done" /\ calls'[p].pc = "done"

\* The row of the call's name is present and younger than CACHE_DURATION.
FreshRow(name) ==
    name \in DOMAIN docs /\ now < docs[name].timestamp + CACHE_DURATION

\* C1: a call with useCache = true that finds a row younger than
\* CACHE_DURATION returns exactly that row in its first step, has issued no
\* wiki request and leaves function_docs as it was.
C1_CacheHit ==
    [][\A p \in Procs :
        (Starts(p) /\ calls'[p].useCache /\ FreshRow(calls'[p].name)) =>
            /\ calls'[p].pc = "done"
            /\ calls'[p].result.kind = "doc"
            /\ calls'[p].result.doc = docs[calls'[p].name]
            /\ calls'[p].variant = 0
            /\ docs' = docs]_vars

\* A call answered from the cache: it is done without any request.
C1_Witness ==
    \E p \in Procs :
        /\ calls[p].pc = "done"
        /\ calls[p].useCache
        /\ calls[p].variant = 0
        /\ calls[p].result.kind = "doc"

\* C2 (as claimed): a call with useCache = true that found a row for its
\* name, stale or not, returns a Document and never NotFound: when its fetch
\* fails it returns the row it found.
C2_StaleServedOnFailure ==
    [][\A p \in Procs :
        (Returns(p) /\ calls[p].cached.found) =>
            /\ calls'[p].result.kind = "doc"
            /\ docs' = docs => calls'[p].result.doc = calls[p].cached.row]_vars

\* C3: every step of a call other than its successful return leaves
\* function_docs exactly as it was; in particular a call that returns null
\* has inserted, overwritten and deleted nothing.
C3_FailureKeepsStore ==
    [][\A p \in Procs :
        (calls'[p] # calls[p]
            /\ ~(Returns(p) /\ calls'[p].result.kind = "doc"
                            /\ calls'[p].variant > 0)) =>
            docs' = docs]_vars

\* A refresh failed after all three variants while a row was stored.
C3_Witness ==
    \E p \in Procs :
        /\ calls[p].pc = "done"
        /\ calls[p].result.kind = "null"
        /\ calls[p].variant = 3
        /\ calls[p].name \in DOMAIN docs

\* C4: with useCache = true and a row stored at T, a call at a time before
\* T + CACHE_DURATION is answered from the cache without a request, and a
\* call at T + CACHE_DURATION or later requests the first url variant.
C4_FreshnessBoundary ==
    [][\A p \in Procs :
        (Starts(p) /\ calls'[p].useCache /\ calls'[p].name \in DOMAIN docs) =>
            LET T == docs[calls'[p].name].timestamp
            IN  /\ now < T + CACHE_DURATION =>
                    calls'[p].pc = "done" /\ calls'[p].variant = 0
                /\ now >= T + CACHE_DURATION =>
                    calls'[p].pc = "fetch" /\ calls'[p].variant = 1]_vars

\* A call made exactly CACHE_DURATION after the row was stored is fetching.
C4_Witness ==
    \E p \in Procs :
        /\ calls[p].pc = "fetch"
        /\ calls[p].useCache
        /\ calls[p].variant = 1
        /\ calls[p].name \in DOMAIN docs
        /\ now = docs[calls[p].name].timestamp + CACHE_DURATION

\* The row is the complete output of one fetch of a page: every text field,
\* the related list and the embedding are those built from that one page.
CompleteRow(row) ==
    \E html \in Pages :
        /\ row.description = html.description
        /\ row.syntax = html.syntax
        /\ row.examples = html.examples
        /\ row.parameters = html.parameters
        /\ row.returns = html.returns
        /\ row.deprecated = html.deprecated
        /\ row.full_text = join(<<html.description, html.syntax, html.parameters,
                                  html.returns, html.examples>>, <<32>>)
        /\ row.embedding = generateTextEmbedding(row.full_text)
        /\ Len(html.related) > 0 => row.related_functions = join(html.related, <<44, 32>>)

\* C5: a call with useCache = false always issues its own request, whatever
\* other calls are in flight; after every step each stored row is the
\* complete output of one fetch, and the row a returning call wrote is the
\* Document it returns with its embedding.
C5_NoTornWrite ==
    [][/\ \A p \in Procs :
            (Starts(p) /\ ~calls'[p].useCache /\ hasMetadata(calls'[p].name)) =>
                calls'[p].pc = "fetch" /\ calls'[p].variant = 1
       /\ \A n \in DOMAIN docs' : docs'[n].function_name = n /\ CompleteRow(docs'[n])
       /\ \A p \in Procs :
            (Returns(p) /\ calls'[p].result.kind = "doc" /\ calls'[p].variant > 0) =>
                /\ calls[p].name \in DOMAIN docs'
                /\ \A f \in DOMAIN calls'[p].result.doc :
                    docs'[calls[p].name][f] = calls'[p].result.doc[f]]_vars

\* Two calls with useCache = false on one name overlapped: the later one has
\* returned its Document while the earlier one still awaits its page.
C5_Witness ==
    /\ calls[1].pc = "text"
    /\ calls[2].pc = "done"
    /\ calls[2].result.kind = "doc"
    /\ calls[1].name = calls[2].name
    /\ ~calls[1].useCache
    /\ ~calls[2].useCache
    /\ calls[2].name \in DOMAIN docs

\* C6: every overwrite of a row stores a timestamp that is not smaller than
\* the one it replaces.
C6_TimestampMonotone ==
    [][\A n \in DOMAIN docs \cap DOMAIN docs' :
        docs'[n].timestamp >= docs[n].timestamp]_vars

\* Two fetches of one name completed in the reverse of the order they were
\* started, and the row is the one written last.
C6_Witness ==
    /\ calls[1].pc = "done" /\ calls[1].result.kind = "doc" /\ calls[1].variant > 0
    /\ calls[2].pc = "done" /\ calls[2].result.kind = "doc" /\ calls[2].variant > 0
    /\ calls[1].name = calls[2].name
    /\ calls[1].result.doc.timestamp > calls[2].result.doc.timestamp
    /\ calls[1].name \in DOMAIN docs
    /\ docs[calls[1].name].timestamp = calls[1].result.doc.timestamp

\* C7 (as claimed): the url of a fetched Document is usedUrl, the resolved
\* location of the variant that succeeded.
C7_UrlIsResolvedLocation ==
    \A p \in Procs :
        (calls[p].pc = "done" /\ calls[p].result.kind = "doc" /\ calls[p].variant > 0) =>
            calls[p].result.doc.url = calls[p].usedUrl

\* The see-also titles that are keys of allFunctions, in page order.
CatalogTitles(titles) ==
    SelectSeq(titles, LAMBDA t : t \in {allFunctions[i].name : i \in DOMAIN allFunctions})

\* C8: the related_functions of a stored row is the parsed related list when
\* that is not empty, and otherwise the ", "-joined see-also titles that are
\* keys of allFunctions, in page order.
C8_RelatedPrecedence ==
    \A n \in DOMAIN docs : \A html \in Pages :
        docs[n].description = html.description =>
            docs[n].related_functions =
                IF Len(join(html.related, <<44, 32>>)) > 0
                THEN join(html.related, <<44, 32>>)
                ELSE join(CatalogTitles(html.seeAlso), <<44, 32>>)

\* Both branches are stored at some time: here the derived list, which skips
\* the title that is no key of allFunctions.
C8_Witness ==
    \E n \in DOMAIN docs :
        /\ docs[n].description = PageQuery.description
        /\ docs[n].related_functions = join(<<s_dbPoll, s_dbQuery>>, <<44, 32>>)

(***************************************************************************)
(* The matcher on its own: any catalog and store a run can have left       *)
(* behind, then queries.                                                   *)
(***************************************************************************)
s_spawn_vehicle   == <<115,112,97,119,110,32,118,101,104,105,99,108,101>> \* "spawn vehicle"
s_sql_query       == <<115,113,108,32,113,117,101,114,121>>             \* "sql query"
s_creates_vehicle == <<99,114,101,97,116,101,115,32,118,101,104,105,99,108,101>> \* "creates vehicle"

s_chatbox         == <<99,104,97,116,98,111,120>>                       \* "chatbox"
s_database        == <<100,97,116,97,98,97,115,101>>                    \* "database"
s_constructor     == <<99,111,110,115,116,114,117,99,116,111,114>>      \* "constructor"

MatchQueries ==
    {s_spawn_vehicle, s_sql_query, s_creates_vehicle, <<>>,
     s_chatbox, s_database, s_constructor}

\* Contents of mtafuncs.js a load can have delivered (none: not loaded yet).
MatchLists ==
    {<<>>,
     MtaFuncsA,
     <<<<s_createVehicle, 7>>, <<s_dbQuery, 5>>, <<s_spawnVehicle, 7>>>>}

\* Names whose page can have been fetched and stored.
MatchDocNames == {s_spawnVehicle, s_createVehicle, s_dbQuery}

\* Name parts and sides search_mtasa_functions is asked for.
s_vehicle == <<118,101,104,105,99,108,101>> \* "vehicle"
s_db      == <<100,98>>                     \* "db"
s_e       == <<101>>                        \* "e"

SearchQueries == {s_vehicle, s_db, s_e}

SearchSides == {"null", "client", "server", "shared"}

\* The lists are loaded; or the load is still awaiting them, or has failed
\* before parsing, and allFunctions is empty; or the load has failed in the
\* transaction, allFunctions is filled and function_metadata is not written.
\* function_metadata and function_docs hold what this and earlier runs of
\* the server stored.
MatchInit ==
    /\ now = 0
    /\ calls = [p \in Procs |-> IdleCall]
    /\ found = NoAnswer
    /\ cleared = FALSE
    /\ stats = NoStats
    /\ \E list \in MatchLists :
        /\ allFunctions = parseFunctionList(<<>>, list)
        /\ loadPc \in IF list = <<>> THEN {"fetching", "failed"}
                                     ELSE {"done", "failed"}
    /\ \E persisted \in {<<>>, MtaFuncsA} :
        LET before == insertMetadata([n \in {} |-> n],
                                     parseFunctionList(<<>>, persisted))
        IN  metadata = IF loadPc = "failed"
                       THEN before
                       ELSE insertMetadata(before, allFunctions)
    /\ \E names \in SUBSET (MatchDocNames \cap DOMAIN metadata) :
        \E page \in [names -> Pages] :
            docs = [n \in names |-> docRow(buildDoc(page[n], n))]
    /\ tieOrder \in Orders(DOMAIN docs)
    /\ embedText = <<>>
    /\ embedded = NoVector

\* One request is answered in a behaviour: neither tool writes anything, so
\* the answer to a later request is the one it gets as the first request
\* from the same catalog and store.
MatchNext ==
    \/ \E query \in MatchQueries, limit \in 1..MaxLimit :
            found = NoAnswer /\ FindRelated(query, limit)
    \/ \E query \in SearchQueries, side \in SearchSides, limit \in 1..MaxLimit :
            found = NoAnswer /\ Search(query, side, limit)

SpecMatch == MatchInit /\ [][MatchNext]_vars

\* The embedding of the query of the last answer.
FoundQuery == generateTextEmbedding(found.query)

\* The stored embedding of an item of the answer.
EmbeddingOf(item) == docs[item.name].embedding

\* C9: when the vector query succeeds and at least limit stored documents
\* are found, the answer is exactly limit catalog items, each the metadata
\* of a stored document, in ascending distance to the query, and no
\* document left out is nearer than one returned.
C9_VectorResult ==
    /\ (found.path \in {"vector", "keyword", "error"} /\ ~found.threw
            /\ Cardinality(DOMAIN docs) >= found.limit) => found.path = "vector"
    /\ found.path = "vector" =>
        LET r == found.result
        IN  /\ Len(r) = found.limit
            /\ \A i \in DOMAIN r :
                r[i].name \in DOMAIN docs /\ r[i] = metadata[r[i].name]
            /\ \A i, j \in DOMAIN r :
                i < j => /\ r[i].name # r[j].name
                         /\ distLE(EmbeddingOf(r[i]), EmbeddingOf(r[j]), FoundQuery)
            /\ \A n \in DOMAIN docs \ {r[i].name : i \in DOMAIN r} :
                \A i \in DOMAIN r :
                    distLE(EmbeddingOf(r[i]), docs[n].embedding, FoundQuery)

\* A vector answer that left out a document strictly farther from the query
\* than the ones returned.
C9_Witness ==
    /\ found.path = "vector"
    /\ Len(found.result) = found.limit
    /\ \E n \in DOMAIN docs :
        \A i \in DOMAIN found.result :
            /\ n # found.result[i].name
            /\ ~distLE(docs[n].embedding, EmbeddingOf(found.result[i]), FoundQuery)

\* The keywords and the score of the fallback for the last answer.
FoundKeywords == filterLonger(expandQueryKeywords(found.query).words, 2)

FoundScore(item) == functionScore(item, FoundKeywords)

\* a < b as JavaScript compares strings: by code units, a proper prefix first.
idLess(a, b) ==
    \E k \in 1..(Len(b)) :
        /\ k <= Len(a) + 1
        /\ \A i \in 1..(k - 1) : a[i] = b[i]
        /\ k = Len(a) + 1 \/ a[k] < b[k]

\* item x is ranked before item y: higher score, or equal score and smaller
\* id.
RankedBefore(x, y) ==
    \/ FoundScore(x) > FoundScore(y)
    \/ FoundScore(x) = FoundScore(y) /\ idLess(x.name, y.name)

\* C10 (as claimed): a keyword answer holds only items of positive score, in
\* descending score with equal scores in ascending id, and is the first
\* limit of the catalog in that ranking.
C10_KeywordOrder ==
    found.path = "keyword" =>
        LET r == found.result
        IN  /\ Len(r) <= found.limit
            /\ \A i \in DOMAIN r : FoundScore(r[i]) > 0
            /\ \A i, j \in DOMAIN r : i < j => RankedBefore(r[i], r[j])
            /\ \A k \in DOMAIN allFunctions :
                (FoundScore(allFunctions[k]) > 0
                    /\ \A i \in DOMAIN r : r[i] # allFunctions[k]) =>
                    /\ Len(r) = found.limit
                    /\ \A i \in DOMAIN r : RankedBefore(r[i], allFunctions[k])


\* What one token adds to the score of an id when the camel-case segments are
\* those of the id as written: split before each upper-case letter.
SegmentScore(name, keyword) ==
    (IF startsWith(toLowerCase(name), keyword) THEN 20 ELSE 0)
    + (IF includes(toLowerCase(name), keyword) THEN 10 ELSE 0)
    + (IF \E part \in Range(splitCamel(name)) :
             includes(toLowerCase(part), keyword)
       THEN 5 ELSE 0)

RECURSIVE SumSegmentScores(_, _)
SumSegmentScores(name, keywords) ==
    IF Len(keywords) = 0 THEN 0
    ELSE SegmentScore(name, keywords[1]) + SumSegmentScores(name, Tail(keywords))

\* C11 (as claimed): the score the fallback gives every catalog item is the
\* sum over the tokens of 20 for a prefix, 10 for a substring and 5 for a
\* substring of one camel-case segment of the id, so a token that matches
\* only across a segment boundary earns 10 and not 15.
C11_ScoreFormula ==
    found.path = "keyword" =>
        \A k \in DOMAIN allFunctions :
            FoundScore(allFunctions[k]) =
                SumSegmentScores(allFunctions[k].name, FoundKeywords)


\* C12 (as claimed): on the keyword path the query "database" finds the
\* db-prefixed functions: with dbQuery and dbPoll in the catalog, at least
\* one of them is returned, and both when limit allows two.
C12_DatabaseFindsDb ==
    (found.path = "keyword" /\ found.query = s_database
        /\ mapHas(allFunctions, s_dbQuery) /\ mapHas(allFunctions, s_dbPoll)) =>
        LET names == {found.result[i].name : i \in DOMAIN found.result}
        IN  /\ names \cap {s_dbQuery, s_dbPoll} # {}
            /\ found.limit >= 2 => {s_dbQuery, s_dbPoll} \subseteq names


\* The catalog items the fallback scores above zero for the last query.
PositiveItems ==
    {k \in DOMAIN allFunctions : FoundScore(allFunctions[k]) > 0}

Min(a, b) == IF a < b THEN a ELSE b

\* The call ended in the TypeError of expandQueryKeywords only for a query
\* with a word that names an inherited property.
ErrorOnlyFromInheritedKey ==
    found.path = "error" =>
        \E w \in Range(splitWhitespace(toLowerCase(found.query))) : w \in InheritedKeys

C14_NeverMerged ==
    /\ found.path = "vector" =>
        \E rows \in searchDocsByVector(FoundQuery, found.limit * 2) :
            found.result = slice(lookupAll(rows), found.limit)
    /\ found.path = "keyword" =>
        /\ found.result = keywordFallback(found.query, found.limit).result
        /\ \A i \in DOMAIN found.result :
            /\ mapHas(allFunctions, found.result[i].name)
            /\ FoundScore(found.result[i]) > 0

\* The vector query found a document, too few for limit, and the keyword
\* answer does not hold it.
C14_Witness ==
    /\ found.path = "keyword"
    /\ ~found.threw
    /\ Len(found.result) > 0
    /\ \E n \in DOMAIN docs :
        /\ Cardinality(DOMAIN docs) < found.limit
        /\ \A i \in DOMAIN found.result : found.result[i].name # n


ClaimedExpansion(query) ==
    LET words == Range(splitWhitespace(toLowerCase(query)))
    IN  words \cup UNION {Range(KEYWORD_ALIASES[w]) :
                            w \in words \cap DOMAIN KEYWORD_ALIASES}

\* C16 (as claimed): whenever the keyword path runs, expandQueryKeywords
\* returns exactly the words of the query and the aliases of the words that
\* are keys of the table, one level deep, and raises no error for any word.
C16_ExpandTotal ==
    found.path \in {"keyword", "error"} =>
        LET expansion == expandQueryKeywords(found.query)
        IN  /\ ~expansion.threw
            /\ found.path = "keyword"
            /\ Range(expansion.words) = ClaimedExpansion(found.query)


\* C20: a list returned by findRelatedFunctions, from the vector result or
\* from the keyword fallback, has at most limit items and no name twice.
C20_BoundedDistinct ==
    found.path \in {"vector", "keyword"} =>
        /\ found.limit > 0
        /\ Len(found.result) <= found.limit
        /\ \A i, j \in DOMAIN found.result :
            found.result[i].name = found.result[j].name => i = j

\* A keyword answer cut to limit: more items had a positive score.
C20_Witness ==
    /\ found.path = "keyword"
    /\ Len(found.result) = found.limit
    /\ Cardinality(PositiveItems) > found.limit


(***************************************************************************)
(* Properties of the tool handlers, checked under Spec.                    *)
(***************************************************************************)
\* C18: a call for a name without a row in function_metadata is answered
\* "not found" in its first step: no wiki request is issued and
\* function_docs is left as it was.
C18_NotInCatalog ==
    [][\A p \in Procs :
        (Starts(p) /\ calls'[p].name \notin DOMAIN metadata) =>
            /\ calls'[p].pc = "done"
            /\ calls'[p].result.kind = "notInCatalog"
            /\ calls'[p].variant = 0
            /\ docs' = docs]_vars

\* A call for a name that is in no list was answered "not found" after the
\* catalog was loaded.
C18_Witness ==
    \E p \in Procs :
        /\ loadPc = "done"
        /\ calls[p].pc = "done"
        /\ calls[p].name = s_MainPage
        /\ calls[p].result.kind = "notInCatalog"
        /\ calls[p].variant = 0


\* C17 (as claimed): an answer of get_mtasa_cache_stats given after
\* clear_mtasa_cache("all") with no call started in between reports 0
\* documents, also when calls started before the clear were still in flight.
C17_ClearThenCountZero ==
    [][(cleared /\ stats' # stats) => stats'.count = 0]_vars


AnswersOf(query, limit, threw) ==
    {findRelatedFunctions(query, limit, search) :
        search \in IF threw
                   THEN {[threw |-> TRUE]}
                   ELSE {[threw |-> FALSE, rows |-> r] :
                            r \in searchDocsByVector(
                                    vectorToBuffer(generateTextEmbedding(query)),
                                    limit * 2)}}

\* Documents a and b are at the same distance from the query vector q.
SameDistance(a, b, q) ==
    /\ distLE(docs[a].embedding, docs[b].embedding, q)
    /\ distLE(docs[b].embedding, docs[a].embedding, q)

HasSurvivingToken(text) ==
    \E i \in 1..(Len(text) - 2) :
        \A k \in 0..2 : isWordChar(toLowerCaseChar(text[i + k]))

\* Every entry of the returned vector is 0.
IsZeroVector(e) == \A ix \in DOMAIN e.freq : e.freq[ix] = 0

\* The square of the L2 norm of the returned vector, as a fraction: each
\* entry is freq / sqrt(words + 1), divided by magnitude when unit.
NormSquared(e) ==
    IF e.unit
    THEN [num |-> magnitudeSquared(e.freq) * (e.words + 1),
          den |-> (e.words + 1) * magnitudeSquared(e.freq)]
    ELSE [num |-> magnitudeSquared(e.freq), den |-> e.words + 1]

\* C22: the vector is zero exactly when the text has no surviving token;
\* otherwise it is non-zero and was divided by its magnitude, so its L2 norm
\* is 1; the divisor of a division is never 0.
C22_ZeroIffNoToken ==
    embedded.made =>
        LET e == embedded.vector
        IN  /\ IsZeroVector(e) <=> ~HasSurvivingToken(embedText)
            /\ ~HasSurvivingToken(embedText) => ~e.unit
            /\ HasSurvivingToken(embedText) =>
                    /\ e.unit
                    /\ NormSquared(e).den > 0
                    /\ NormSquared(e).num = NormSquared(e).den
            /\ e.unit => magnitudeSquared(e.freq) > 0
            /\ e.words + 1 > 0

\* A text that is not empty and has no surviving token was embedded.
C22_Witness ==
    /\ embedded.made
    /\ Len(embedText) > 0
    /\ ~HasSurvivingToken(embedText)
    /\ IsZeroVector(embedded.vector)

\* C27: the bucket of every token lies in 0 .. VECTOR_DIMENSIONS - 1, also
\* when the 32-bit hash is negative or is -2^31.
C27_BucketInRange ==
    embedded.made =>
        /\ \A i \in DOMAIN embeddingWords(embedText) :
                wordIndex(embeddingWords(embedText)[i]) \in 0..(VECTOR_DIMENSIONS - 1)
        /\ DOMAIN embedded.vector.freq \subseteq 0..(VECTOR_DIMENSIONS - 1)

\* A text with a token whose hash is -2^31 and one whose hash is negative
\* and not -2^31 was embedded.
C27_Witness ==
    /\ embedded.made
    /\ \E i, j \in DOMAIN embeddingWords(embedText) :
        /\ wordHash(embeddingWords(embedText)[i]) = <<32768, 0>>
        /\ wordHash(embeddingWords(embedText)[j])[1] > 32768

(***************************************************************************)
(* Properties of the catalog load, checked under SpecLoad.                 *)
(***************************************************************************)
\* The ids of the in-memory Catalog.
CatalogIds(functions) == {functions[i].name : i \in DOMAIN functions}

\* loadMtasaFunctions returns in this step, without or with an error caught.
LoadSucceeds == loadPc = "fetching" /\ loadPc' = "done"
LoadFails == loadPc = "fetching" /\ loadPc' = "failed"

\* A load removes no id, neither from allFunctions nor from
\* function_metadata, and a load that succeeds leaves every id of the
\* Catalog in function_metadata with the metadata of the Catalog.
LoadMerges ==
    (LoadSucceeds \/ LoadFails) =>
        /\ CatalogIds(allFunctions) \subseteq CatalogIds(allFunctions')
        /\ DOMAIN metadata \subseteq DOMAIN metadata'
        /\ LoadSucceeds =>
                \A i \in DOMAIN allFunctions' :
                    /\ allFunctions'[i].name \in DOMAIN metadata'
                    /\ metadata'[allFunctions'[i].name] = allFunctions'[i]

\* C23: a load is a merge by id, and a load that fails leaves the Catalog
\* and function_metadata as they were.
C23_LoadIsMerge ==
    [][/\ LoadMerges
       /\ LoadFails => UNCHANGED <<allFunctions, metadata>>]_vars

\* The merge alone, which the code keeps.
C23_MergeOnly == [][LoadMerges]_vars

(***************************************************************************)
(* The side filter of search_mtasa_functions, checked under SpecMatch.     *)
(***************************************************************************)
\* The last answer is one of search_mtasa_functions with a side given.
SearchedWithSide == found.path = "search" /\ found.side # "null"

\* C24 as claimed: with a side given, every item returned has that side.
C24_OnlyAskedSide ==
    SearchedWithSide =>
        \A i \in DOMAIN found.result : found.result[i].side = found.side

\* C24 as the code has it: with a side given, every item returned has that
\* side or the side 'shared'; an item of the other one of client and server
\* is never returned.
C24_AskedSideOrShared ==
    SearchedWithSide =>
        \A i \in DOMAIN found.result :
            found.result[i].side \in {found.side, "shared"}

\* A search for client items returned a shared one while an item of the
\* server side matched the text and was left out.
C24_Witness ==
    /\ found.path = "search"
    /\ found.side = "client"
    /\ \E i \in DOMAIN found.result : found.result[i].side = "shared"
    /\ \E n \in DOMAIN metadata :
        /\ metadata[n].side = "server"
        /\ includes(toLowerCase(n), toLowerCase(found.query))

(***************************************************************************)
(* The documented cache duration, checked under Spec.                      *)
(***************************************************************************)
\* FEATURES.md: "30-day cache duration".
DOCUMENTED_CACHE_DAYS == 30

\* The age is below DOCUMENTED_CACHE_DAYS days (in whole days, so that the
\* number of milliseconds of 30 days, above 2^31, is never formed).
YoungerThanDocumented(age) == age \div (24 * 60 * 60 * 1000) < DOCUMENTED_CACHE_DAYS

\* C25: with useCache = true and a row stored at T, a call at any time
\* before T + 30 days is answered from the cache without a request.
C25_ThirtyDayCache ==
    [][\A p \in Procs :
        (/\ Starts(p)
         /\ calls'[p].useCache
         /\ calls'[p].name \in DOMAIN docs
         /\ YoungerThanDocumented(now - docs[calls'[p].name].timestamp)) =>
            /\ calls'[p].pc = "done"
            /\ calls'[p].variant = 0
            /\ calls'[p].result.kind = "doc"]_vars

(***************************************************************************)
(* The probing of the url variants, checked under SpecFair: Spec with      *)
(* every request and every read of a body settling.                        *)
(***************************************************************************)
\* The spellings in the order claimed: original, first letter capitalized,
\* all lowercase.
ClaimedVariants(name) ==
    <<name,
      <<toUpperCaseChar(name[1])>> \o Tail(name),
      [i \in 1..Len(name) |-> toLowerCaseChar(name[i])]>>

\* One step of call p while it probes, from c to d.
ProbingStep(c, d) ==
    \/ \* the request got an OK response: its body is awaited
       /\ c.pc = "fetch" /\ d.pc = "text" /\ d.variant = c.variant
    \/ \* the request, or the read of the body, failed: the next spelling
       /\ d.pc = "fetch" /\ d.variant = c.variant + 1 /\ c.variant < 3
    \/ \* the third one failed
       /\ d.pc = "done" /\ d.result.kind = "null" /\ d.variant = c.variant
       /\ c.pc = "fetch" => c.variant = 3
    \/ \* the body was read: a Document, and no later spelling is requested
       /\ c.pc = "text" /\ d.pc = "done" /\ d.result.kind = "doc"
       /\ d.variant = c.variant
       /\ Len(c.respUrl) = 0 =>
            d.usedUrl = WikiBase \o ClaimedVariants(c.name)[c.variant]

\* C26, safety: a call that is not answered from the cache requests the
\* spellings in the order original, capitalized, lowercase, moves on only
\* when a request failed, stops at the first body it has read, never makes a
\* fourth request and ends with a Document or with null.
C26_ProbingSteps ==
    [][\A p \in Procs :
        LET c == calls[p]
            d == calls'[p]
        IN  /\ (Starts(p) /\ d.pc # "done") => (d.pc = "fetch" /\ d.variant = 1)
            /\ (c.pc \in {"fetch", "text"} /\ d # c) => ProbingStep(c, d)
            /\ d.variant \in 0..3]_vars

C28_EmbeddingOfFullText ==
    \A n \in DOMAIN docs :
        /\ "embedding" \in DOMAIN docs[n]
        /\ docs[n].embedding = vectorToBuffer(generateTextEmbedding(docs[n].full_text))

\* A row was written and then overwritten with the text of another page:
\* both calls returned a Document for the same name, with different texts.
C28_Witness ==
    \E p, q \in Procs :
        /\ calls[p].pc = "done" /\ calls[q].pc = "done"
        /\ calls[p].variant > 0 /\ calls[q].variant > 0
        /\ calls[p].result.kind = "doc" /\ calls[q].result.kind = "doc"
        /\ calls[p].name = calls[q].name
        /\ calls[p].result.doc.full_text # calls[q].result.doc.full_text
        /\ calls[p].name \in DOMAIN docs
        /\ docs[calls[p].name].embedding.unit

\* C29: every row of function_docs has its name in function_metadata, in
\* every state, and no step removes a row of function_metadata.
C29_DocsHaveMetadata ==
    [][/\ DOMAIN docs' \subseteq DOMAIN metadata'
       /\ DOMAIN metadata \subseteq DOMAIN metadata']_vars

\* A Document is stored, and a call for a name without metadata was turned
\* away.
C29_Witness ==
    /\ DOMAIN docs # {}
    /\ DOMAIN docs \subseteq DOMAIN metadata
    /\ \E p \in Procs :
        /\ calls[p].pc = "done"
        /\ calls[p].name \notin DOMAIN metadata
        /\ calls[p].result.kind = "notInCatalog"

(***************************************************************************)
(* clear_mtasa_cache for one name, checked under Spec.                     *)
(***************************************************************************)
\* C30: clear_mtasa_cache(name), name other than 'all', can always be
\* called and completes; it removes the row keyed by exactly that name, if
\* there is one, and leaves every other row, function_metadata and
\* allFunctions as they were; with no such row nothing changes.
C30_ClearOne ==
    [][\A name \in ClearNames \ {s_all} :
        /\ ENABLED ClearCache(name)
        /\ ClearCache(name) =>
            /\ DOMAIN docs' = DOMAIN docs \ {name}
            /\ \A n \in DOMAIN docs' : docs'[n] = docs[n]
            /\ metadata' = metadata
            /\ allFunctions' = allFunctions
            /\ name \notin DOMAIN docs => docs' = docs]_vars

\* The row a call had stored is gone, and no clear of 'all' was made since
\* that call started: the row was cleared by its name.
C30_Witness ==
    /\ calls[1].pc = "done"
    /\ calls[1].result.kind = "doc"
    /\ calls[1].variant > 0
    /\ calls[2].pc = "idle"
    /\ ~cleared
    /\ calls[1].name \notin DOMAIN docs

============================================================================
